---------------------------- MODULE Spec2Model ----------------------------
(***************************************************************************)
(* A model of the poker crate: card text parsing and formatting            *)
(* (src/card.rs), hand construction and five-card classification           *)
(* (src/holdem.rs).                                                        *)
(*                                                                         *)
(* Text is modelled as a sequence of characters.  A character is a         *)
(* one-character string, except for the two non-ASCII characters           *)
(* "U+00E9" (2 bytes in UTF-8) and "U+20AC" (3 bytes in UTF-8), which are  *)
(* named by their code point because str::len and str::split_at count      *)
(* bytes.                                                                  *)
(***************************************************************************)
EXTENDS Integers, Sequences, FiniteSets, TLC

VARIABLES
    pc,        \* position of the run: which operation is next
    text,      \* the &str handed to HoldemHand::try_from
    hand,      \* the Result of HoldemHand::try_from (or the panic that ended it)
    scan,      \* the locals of HoldemHand::rank after its loop
    rank,      \* the Rank returned by HoldemHand::rank (or the panic)
    token,     \* the &str handed to Card::try_from
    card,      \* the Card handed to Display for Card
    parsed,    \* how Card::try_from ended: its Result, or the panic
    text2,     \* the text of the second hand of a comparison
    rank2,     \* the Rank of the second hand
    ordering   \* the Ordering of rank against rank2

vars == <<pc, text, hand, scan, rank, token, card, parsed, text2, rank2, ordering>>

None == "none"

---------------------------------------------------------------------------
(* Bounds of the model. *)

\* Longest token, in characters, that Card::try_from is given on its own.
MaxTokenChars == 4
\* Most tokens in a text built from the small token alphabet.
MaxTokens == 6
\* Descending texts take their suits by stepping 0..MaxSuitStep suits per card.
MaxSuitStep == 1

---------------------------------------------------------------------------
(* Characters and strings. *)

\* UTF-8 length of a character, as str::len counts it.
ByteLen(c) == CASE c = "U+00E9" -> 2
                [] c = "U+20AC" -> 3
                [] OTHER -> 1

\* char::to_lowercase on the characters of the model.
LowerChar(c) == CASE c = "A" -> "a" [] c = "K" -> "k" [] c = "Q" -> "q"
                  [] c = "J" -> "j" [] c = "H" -> "h" [] c = "D" -> "d"
                  [] c = "C" -> "c" [] c = "S" -> "s" [] c = "P" -> "p"
                  [] OTHER -> c

\* str::to_lowercase
ToLowercase(s) == [i \in 1..Len(s) |-> LowerChar(s[i])]

\* str::len: the length in bytes
RECURSIVE StrLen(_)
StrLen(s) == IF s = <<>> THEN 0 ELSE ByteLen(Head(s)) + StrLen(Tail(s))

\* The string value of a character sequence (to_string), for error payloads.
RECURSIVE StrOf(_)
StrOf(s) == IF s = <<>> THEN "" ELSE Head(s) \o StrOf(Tail(s))

\* str::is_char_boundary(mid): mid is 0, the length, or the start of a character
IsCharBoundary(s, mid) ==
    \E k \in 0..Len(s) : StrLen(SubSeq(s, 1, k)) = mid

\* str::split_at(mid) where mid is a character boundary: the two halves
SplitAt(s, mid) ==
    LET k == CHOOSE k \in 0..Len(s) : StrLen(SubSeq(s, 1, k)) = mid
    IN  <<SubSeq(s, 1, k), SubSeq(s, k + 1, Len(s))>>

\* char::is_whitespace on the characters of the model
IsWhitespace(c) == c \in {" ", "\t"}

\* str::split_whitespace: the maximal runs of non-whitespace characters
RECURSIVE SplitFrom(_, _)
SplitFrom(s, cur) ==
    IF s = <<>> THEN (IF cur = <<>> THEN <<>> ELSE <<cur>>)
    ELSE IF IsWhitespace(Head(s))
         THEN (IF cur = <<>> THEN <<>> ELSE <<cur>>) \o SplitFrom(Tail(s), <<>>)
         ELSE SplitFrom(Tail(s), Append(cur, Head(s)))

SplitWhitespace(s) == SplitFrom(s, <<>>)

\* The decimal digits of a u8, as write!("{}", n) prints them.
RECURSIVE Decimal(_)
Decimal(n) ==
    LET d == <<"0", "1", "2", "3", "4", "5", "6", "7", "8", "9">>
    IN  IF n < 10 THEN <<d[n + 1]>> ELSE Append(Decimal(n \div 10), d[(n % 10) + 1])

---------------------------------------------------------------------------
(* Suit, Value, Card (src/card.rs). *)

SUIT_STRINGS == << <<"h">>, <<"d">>, <<"c">>, <<"s">> >>

VALUE_STRINGS == << <<"a">>, <<"2">>, <<"3">>, <<"4">>, <<"5">>, <<"6">>, <<"7">>,
                    <<"8">>, <<"9">>, <<"1", "0">>, <<"j">>, <<"q">>, <<"k">> >>

\* The discriminants of enum Value.
Two == 2
Five == 5
Ten == 10
Jack == 11
Queen == 12
King == 13
Ace == 14

Values == Two..Ace

\* Suit::values()
SuitValues == <<"Heart", "Diamond", "Club", "Spade">>

Suits == {SuitValues[i] : i \in 1..Len(SuitValues)}

\* Value::values()
ValueValues == <<Ace, 2, 3, 4, 5, 6, 7, 8, 9, Ten, Jack, Queen, King>>

\* SUIT_LOOKUP: SUIT_STRINGS[i] -> Suit::values()[i]
SUIT_LOOKUP == [s \in {SUIT_STRINGS[i] : i \in 1..Len(SUIT_STRINGS)} |->
                   SuitValues[CHOOSE i \in 1..Len(SUIT_STRINGS) : SUIT_STRINGS[i] = s]]

\* VALUE_LOOKUP: VALUE_STRINGS[i] -> Value::values()[i]
VALUE_LOOKUP == [s \in {VALUE_STRINGS[i] : i \in 1..Len(VALUE_STRINGS)} |->
                    ValueValues[CHOOSE i \in 1..Len(VALUE_STRINGS) : VALUE_STRINGS[i] = s]]

Ok(x) == [kind |-> "Ok", val |-> x]
Err(k, a) == [kind |-> k, arg |-> a]
Panic(a) == [kind |-> "Panic", arg |-> a]

\* impl TryFrom<&str> for Suit
SuitTryFrom(s) ==
    IF ToLowercase(s) \in DOMAIN SUIT_LOOKUP
    THEN Ok(SUIT_LOOKUP[ToLowercase(s)])
    ELSE Err("BadSuit", StrOf(s))

\* impl TryFrom<&str> for Value
ValueTryFrom(v) ==
    IF ToLowercase(v) \in DOMAIN VALUE_LOOKUP
    THEN Ok(VALUE_LOOKUP[ToLowercase(v)])
    ELSE Err("BadValue", StrOf(v))

\* Card(Suit, Value)
CardNew(s, v) == [suit |-> s, value |-> v]

Deck == {CardNew(s, v) : s \in Suits, v \in Values}

\* Ok(Self(Suit::try_from(s)?, Value::try_from(v)?)): the suit is tried first.
CardOfParts(v, s) ==
    LET su == SuitTryFrom(s)
        va == ValueTryFrom(v)
    IN  IF su.kind # "Ok" THEN su
        ELSE IF va.kind # "Ok" THEN va
        ELSE Ok(CardNew(su.val, va.val))

\* The length test of Card::try_from.
LengthOk(len) == len = 2 \/ len = 3

\* impl TryFrom<&str> for Card.  split_at panics when len - 1 falls inside a
\* character.
CardTryFrom(c) ==
    LET len == StrLen(c)
    IN  IF ~LengthOk(len) THEN Err("BadCard", "invalid length")
        ELSE IF ~IsCharBoundary(c, len - 1) THEN Panic("split_at")
        ELSE LET vs == SplitAt(c, len - 1) IN CardOfParts(vs[1], vs[2])

\* impl Display for Suit
SuitDisplay(s) == CASE s = "Heart" -> <<"h">>
                    [] s = "Diamond" -> <<"d">>
                    [] s = "Club" -> <<"c">>
                    [] s = "Spade" -> <<"s">>

\* impl Display for Value
ValueDisplay(v) == CASE v = Ace -> <<"A">>
                     [] v = King -> <<"K">>
                     [] v = Queen -> <<"Q">>
                     [] v = Jack -> <<"J">>
                     [] OTHER -> Decimal(v)

\* A faulty Display for Card: the fields are written in declaration order,
\* suit first.
CardDisplaySuitFirst(c) == SuitDisplay(c.suit) \o ValueDisplay(c.value)

\* impl Display for Card: write!(f, "{}{}", self.1, self.0)
CardDisplay(c) == ValueDisplay(c.value) \o SuitDisplay(c.suit)

---------------------------------------------------------------------------
(* HoldemHand and Rank (src/holdem.rs). *)

\* A faulty enum Rank: FullHouse is declared after Bomb.
RankVariantsBombFirst == <<"HighCard", "Pair", "TwoPair", "Set", "Straight", "Flush",
                           "Bomb", "FullHouse", "StraightFlush", "RoyalStraightFlush">>

\* enum Rank, in declaration order: HighCard = 1, then one more per variant.
RankVariants == <<"HighCard", "Pair", "TwoPair", "Set", "Straight", "Flush",
                  "FullHouse", "Bomb", "StraightFlush", "RoyalStraightFlush">>

\* The discriminant of a Rank variant.
RankDiscriminant(r) == CHOOSE i \in 1..Len(RankVariants) : RankVariants[i] = r

\* derive(PartialOrd, Ord) for Rank: the order of the discriminants
RankCmp(a, b) ==
    IF RankDiscriminant(a) < RankDiscriminant(b) THEN "Less"
    ELSE IF RankDiscriminant(a) > RankDiscriminant(b) THEN "Greater"
    ELSE "Equal"

\* Where the stable sort of HoldemHand::new puts c in an already sorted
\* prefix: after every card whose value is not below c's.
RECURSIVE InsertDesc(_, _)
InsertDesc(sorted, c) ==
    IF sorted = <<>> THEN <<c>>
    ELSE IF Head(sorted).value >= c.value
         THEN <<Head(sorted)>> \o InsertDesc(Tail(sorted), c)
         ELSE <<c>> \o sorted

\* cards.sort_by(|a, b| b.value().cmp(&a.value())): a stable sort, descending
\* by value; cards of equal value keep their input order.
RECURSIVE SortDesc(_)
SortDesc(cards) ==
    IF cards = <<>> THEN <<>>
    ELSE InsertDesc(SortDesc(SubSeq(cards, 1, Len(cards) - 1)), cards[Len(cards)])

\* A faulty HoldemHand::new: the cards are left in input order.
HoldemHandNewUnsorted(cards) == cards

\* HoldemHand::new
HoldemHandNew(cards) == SortDesc(cards)

\* .map(|s| Card::try_from(s)).collect::<Result<_, _>>(): the cards, or the
\* first token's error (or panic); later tokens are not looked at.
RECURSIVE CollectCards(_, _)
CollectCards(tokens, acc) ==
    IF tokens = <<>> THEN Ok(acc)
    ELSE LET r == CardTryFrom(Head(tokens))
         IN  IF r.kind # "Ok" THEN r
             ELSE CollectCards(Tail(tokens), Append(acc, r.val))

\* The count test of HoldemHand::try_from.
CountOk(n) == n = 5

\* impl TryFrom<&str> for HoldemHand
HandTryFrom(value) ==
    LET cards == CollectCards(SplitWhitespace(value), <<>>)
    IN  IF cards.kind # "Ok" THEN cards
        ELSE IF ~CountOk(Len(cards.val)) THEN Err("BadCard", "invalid number of cards")
        ELSE Ok(HoldemHandNew(cards.val))

\* A faulty StraightBroken: the exception looks at cur alone, so any card
\* followed by a Five passes.
StraightBrokenAnyFive(pre, cur) ==
    /\ cur.value + 1 # pre.value
    /\ ~(cur.value = Five)

\* rank(), lines 48-51: the step from pre to cur breaks the straight.
StraightBroken(pre, cur) ==
    /\ cur.value + 1 # pre.value
    /\ ~(pre.value = Ace /\ cur.value = Five)

\* A faulty ExtendsFirst: a second pair is never told from the first.
ExtendsFirstAlways(p0e, pre, pre2) == TRUE

\* rank(), lines 62-65: an equal pair of neighbours goes to pairs[0].
ExtendsFirst(p0e, pre, pre2) == p0e \/ pre.value = pre2.value

\* A faulty PushesHigh: the last card of a group is pushed to high too.
PushesHighAlways(p0e, pre, pre2) == TRUE

\* rank(), line 73: pre is pushed to high when cur differs from it.
PushesHigh(p0e, pre, pre2) == p0e \/ pre.value # pre2.value

\* rank(), lines 41-42: the locals before the loop.
RankStart(cards) ==
    [is_flush |-> TRUE, is_straight |-> TRUE,
     pairs |-> << <<>>, <<>> >>, high |-> <<>>,
     pre |-> cards[1], pre2 |-> cards[1]]

\* rank(), lines 44-89: one turn of the loop, i counted from 0 as enumerate does.
RankStep(st, i, cur) ==
    LET pre == st.pre
        pre2 == st.pre2
        p0e == st.pairs[1] = <<>>
        p1e == st.pairs[2] = <<>>
        buf == IF i = 3 THEN <<pre, cur>> ELSE <<pre>>
        flush == IF st.is_flush /\ cur.suit # pre.suit THEN FALSE ELSE st.is_flush
        straight == IF st.is_straight /\ StraightBroken(pre, cur)
                    THEN FALSE ELSE st.is_straight
        pairs == IF cur.value = pre.value
                 THEN IF ExtendsFirst(p0e, pre, pre2)
                      THEN <<st.pairs[1] \o buf, st.pairs[2]>>
                      ELSE <<st.pairs[1], st.pairs[2] \o buf>>
                 ELSE IF PushesHigh(p0e, pre, pre2) THEN st.pairs
                      ELSE IF pre.value = pre2.value
                           THEN IF ~p1e
                                THEN <<st.pairs[1], Append(st.pairs[2], pre)>>
                                ELSE <<Append(st.pairs[1], pre), st.pairs[2]>>
                           ELSE st.pairs
        high1 == IF cur.value # pre.value /\ PushesHigh(p0e, pre, pre2)
                 THEN Append(st.high, pre) ELSE st.high
        high2 == IF cur.value # pre.value /\ i = 3 THEN Append(high1, cur) ELSE high1
    IN  [is_flush |-> flush, is_straight |-> straight, pairs |-> pairs,
         high |-> high2, pre |-> cur, pre2 |-> pre]

\* rank(), line 43: the loop over cards[1..].
RECURSIVE RankLoop(_, _, _)
RankLoop(cards, st, i) ==
    IF i + 2 > Len(cards) THEN st
    ELSE RankLoop(cards, RankStep(st, i, cards[i + 2]), i + 1)

RankScan(cards) == RankLoop(cards, RankStart(cards), 0)

\* rank(), lines 104-116: the match on high.len().
RankByHigh(st) ==
    CASE Len(st.high) = 5 -> "HighCard"
      [] Len(st.high) = 3 -> "Pair"
      [] Len(st.high) = 2 -> "Set"
      [] Len(st.high) = 1 -> IF Len(st.pairs[2]) = 0 THEN "Bomb" ELSE "TwoPair"
      [] Len(st.high) = 0 -> "FullHouse"
      [] OTHER -> "Panic"

\* rank(), lines 91-116: the result, from the locals the loop leaves.
RankResult(cards, st) ==
    IF st.is_flush /\ st.is_straight
    THEN IF cards[2].value = King THEN "RoyalStraightFlush" ELSE "StraightFlush"
    ELSE IF st.is_flush THEN "Flush"
    ELSE IF st.is_straight THEN "Straight"
    ELSE RankByHigh(st)

\* HoldemHand::rank
HandRank(cards) == RankResult(cards, RankScan(cards))

\* impl Display for HoldemHand: the cards' texts joined by " ".
RECURSIVE JoinSpace(_)
JoinSpace(toks) ==
    IF toks = <<>> THEN <<>>
    ELSE IF Len(toks) = 1 THEN toks[1]
    ELSE toks[1] \o <<" ">> \o JoinSpace(Tail(toks))

HandDisplay(cards) == JoinSpace([i \in 1..Len(cards) |-> CardDisplay(cards[i])])

---------------------------------------------------------------------------
(* The inputs. *)

Cd(v, s) == CardNew(s, v)

\* The hands of tests::test_rank (holdem.rs, lines 265-293) and the hands the
\* specification names, as cards; their texts are written by Display.
ScenarioHands ==
    { <<Cd(Ace, "Spade"), Cd(Ten, "Spade"), Cd(King, "Spade"), Cd(Queen, "Spade"), Cd(Jack, "Spade")>>,
      <<Cd(2, "Club"), Cd(3, "Club"), Cd(4, "Club"), Cd(5, "Club"), Cd(Ace, "Club")>>,
      <<Cd(2, "Spade"), Cd(9, "Club"), Cd(9, "Spade"), Cd(9, "Diamond"), Cd(9, "Heart")>>,
      <<Cd(2, "Club"), Cd(2, "Club"), Cd(3, "Club"), Cd(3, "Spade"), Cd(2, "Heart")>>,
      <<Cd(2, "Club"), Cd(3, "Club"), Cd(Queen, "Club"), Cd(Ace, "Club"), Cd(9, "Club")>>,
      <<Cd(4, "Club"), Cd(3, "Heart"), Cd(5, "Diamond"), Cd(7, "Spade"), Cd(6, "Spade")>>,
      <<Cd(2, "Club"), Cd(3, "Heart"), Cd(2, "Diamond"), Cd(2, "Spade"), Cd(Ace, "Spade")>>,
      <<Cd(2, "Club"), Cd(3, "Heart"), Cd(Ace, "Diamond"), Cd(3, "Spade"), Cd(2, "Spade")>>,
      <<Cd(2, "Club"), Cd(King, "Heart"), Cd(Ace, "Diamond"), Cd(Jack, "Spade"), Cd(2, "Spade")>>,
      <<Cd(2, "Club"), Cd(3, "Heart"), Cd(Ace, "Diamond"), Cd(King, "Spade"), Cd(Ten, "Spade")>>,
      <<Cd(Ace, "Spade"), Cd(5, "Club"), Cd(4, "Diamond"), Cd(3, "Heart"), Cd(2, "Spade")>>,
      <<Cd(6, "Club"), Cd(5, "Heart"), Cd(4, "Diamond"), Cd(3, "Spade"), Cd(2, "Club")>>,
      <<Cd(King, "Heart"), Cd(Ace, "Heart"), Cd(2, "Heart"), Cd(3, "Heart"), Cd(4, "Heart")>>,
      <<Cd(King, "Heart"), Cd(Ace, "Diamond"), Cd(2, "Club"), Cd(3, "Spade"), Cd(4, "Heart")>>,
      <<Cd(Ace, "Spade"), Cd(Ace, "Heart"), Cd(5, "Diamond"), Cd(4, "Club"), Cd(3, "Spade")>>,
      <<Cd(King, "Heart"), Cd(King, "Diamond"), Cd(9, "Spade"), Cd(5, "Club"), Cd(2, "Diamond")>>,
      <<Cd(2, "Club"), Cd(2, "Club"), Cd(2, "Club"), Cd(3, "Club"), Cd(3, "Club")>>,
      <<Cd(King, "Heart"), Cd(King, "Diamond"), Cd(King, "Spade"), Cd(2, "Club"), Cd(2, "Diamond")>>,
      <<Cd(King, "Heart"), Cd(King, "Diamond"), Cd(2, "Spade"), Cd(2, "Club"), Cd(2, "Diamond")>>,
      <<Cd(9, "Heart"), Cd(9, "Heart"), Cd(9, "Heart"), Cd(9, "Heart"), Cd(2, "Heart")>>,
      <<Cd(King, "Club"), Cd(Queen, "Club"), Cd(Jack, "Club"), Cd(Ten, "Club"), Cd(9, "Club")>>,
      <<Cd(7, "Heart"), Cd(7, "Heart"), Cd(7, "Diamond"), Cd(7, "Spade"), Cd(7, "Club")>> }

ScenarioTexts == {HandDisplay(h) : h \in ScenarioHands}

Perms5 == {p \in [1..5 -> 1..5] : \A i, j \in 1..5 : p[i] = p[j] => i = j}

\* A scenario hand, written in the token order p.
PermutedText(h, p) == HandDisplay([i \in 1..5 |-> h[p[i]]])

\* The non-increasing sequences of n values, none above hi.
RECURSIVE DescSeqs(_, _)
DescSeqs(n, hi) ==
    IF n = 0 THEN {<<>>}
    ELSE UNION {{<<v>> \o t : t \in DescSeqs(n - 1, v)} : v \in Two..hi}

\* Every multiset of five values, highest first.
DescValues == DescSeqs(5, Ace)

\* The suit of the k-th card (from 0) when the suits start at Suit::values()[s0]
\* and move on by step suits per card.
SuitAt(s0, step, k) == SuitValues[((s0 + step * k) % Len(SuitValues)) + 1]

\* Five values written highest first, with the suits all equal (step 0) or
\* changing from card to card.
DescendingText(vs, s0, step) ==
    HandDisplay([i \in 1..5 |-> CardNew(SuitAt(s0, step, i - 1), vs[i])])

\* A valid card, a token with a bad suit and a bad value, one with a bad value,
\* one of length 1, and one made of a single 2-byte character.
TokenAlphabet == << <<"2", "c">>, <<"p", "k">>, <<"1", "s">>, <<"*">>, <<"U+00E9">> >>

\* The text of the tokens TokenAlphabet[ix[1]], TokenAlphabet[ix[2]], ...
AlphabetText(ix) == JoinSpace([i \in 1..Len(ix) |-> TokenAlphabet[ix[i]]])

\* Texts of tests::test_tryfrom (holdem.rs, lines 251-260) and texts whose
\* whitespace is not one space between tokens.
LiteralTexts ==
    { <<"2","c"," ","3","c"," ","4","c"," ","5","c"," ","6","c"," ","7","c">>,
      <<"2","k"," ","3","c"," ","4","c"," ","5","c"," ","6","c">>,
      <<"1","s"," ","3","c"," ","4","c"," ","5","c"," ","6","c">>,
      <<" ","A","s"," "," ","1","0","s","\t","K","s"," ","Q","s"," ","j","s"," ">>,
      <<"2","C"," ","3","h"," ","a","D"," ","k","S"," ","1","0","S">>,
      <<"2","c"," ","1","0","0","D"," ","4","c"," ","5","c"," ","6","c">>,
      <<"2","c"," ","3","c"," ","a","U+00E9"," ","5","c"," ","6","c">>,
      <<"2","c"," ","3","c"," ","U+00E9","h"," ","5","c"," ","6","c">>,
      <<"U+20AC"," ","3","c"," ","4","c"," ","5","c"," ","6","c">> }

\* The texts HoldemHand::try_from is given: every scenario hand in every token
\* order; every multiset of five values, highest first, under every suit
\* stepping; every text of at most MaxTokens tokens of TokenAlphabet; the
\* literal texts.
IsHandText(t) ==
    \/ \E h \in ScenarioHands, p \in Perms5 : t = PermutedText(h, p)
    \/ \E vs \in DescValues, s0 \in 0..(Len(SuitValues) - 1), step \in 0..MaxSuitStep :
          t = DescendingText(vs, s0, step)
    \/ \E n \in 0..MaxTokens : \E ix \in [1..n -> 1..Len(TokenAlphabet)] :
          t = AlphabetText(ix)
    \/ t \in LiteralTexts

\* The characters of the tokens Card::try_from is given on its own.
CharAlphabet == {"a", "A", "1", "0", "k", "h", "D", "*", "U+00E9", "U+20AC"}

\* Every token of at most MaxTokenChars characters of CharAlphabet, the empty
\* token included.
IsCardToken(t) == \E n \in 0..MaxTokenChars : t \in [1..n -> CharAlphabet]

---------------------------------------------------------------------------
(* Parsing and ranking one hand. *)

Init ==
    /\ pc = "start"
    /\ IsHandText(text)
    /\ hand = None /\ scan = None /\ rank = None
    /\ token = None /\ card = None /\ parsed = None
    /\ text2 = None /\ rank2 = None /\ ordering = None

\* HoldemHand::try_from(text)
DoTryFrom ==
    /\ pc = "start"
    /\ hand' = HandTryFrom(text)
    /\ pc' = CASE hand'.kind = "Ok" -> "built"
               [] hand'.kind = "Panic" -> "aborted"
               [] OTHER -> "failed"
    /\ UNCHANGED <<text, scan, rank, token, card, parsed, text2, rank2, ordering>>

\* hand.rank()
DoRank ==
    /\ pc = "built"
    /\ scan' = RankScan(hand.val)
    /\ rank' = RankResult(hand.val, scan')
    /\ pc' = IF rank' = "Panic" THEN "panicked" ELSE "ranked"
    /\ UNCHANGED <<text, hand, token, card, parsed, text2, rank2, ordering>>

Next == DoTryFrom \/ DoRank

Spec == Init /\ [][Next]_vars

---------------------------------------------------------------------------
(* Comparing the ranks of two hands. *)

InitCompare ==
    /\ pc = "start"
    /\ text \in ScenarioTexts
    /\ text2 \in ScenarioTexts
    /\ hand = None /\ scan = None /\ rank = None
    /\ token = None /\ card = None /\ parsed = None
    /\ rank2 = None /\ ordering = None

\* HoldemHand::try_from(text2).unwrap().rank()
DoRankOther ==
    /\ pc = "ranked"
    /\ rank2' = HandRank(HandTryFrom(text2).val)
    /\ pc' = "ranked2"
    /\ UNCHANGED <<text, hand, scan, rank, token, card, parsed, text2, ordering>>

\* rank.cmp(&rank2)
DoCmp ==
    /\ pc = "ranked2"
    /\ ordering' = RankCmp(rank, rank2)
    /\ pc' = "compared"
    /\ UNCHANGED <<text, hand, scan, rank, token, card, parsed, text2, rank2>>

NextCompare == DoTryFrom \/ DoRank \/ DoRankOther \/ DoCmp

SpecCompare == InitCompare /\ [][NextCompare]_vars

---------------------------------------------------------------------------
(* Parsing and formatting one card. *)

InitCard ==
    /\ \/ pc = "token" /\ IsCardToken(token) /\ card = None
       \/ pc = "card" /\ card \in Deck /\ token = None
    /\ parsed = None
    /\ text = None /\ hand = None /\ scan = None /\ rank = None
    /\ text2 = None /\ rank2 = None /\ ordering = None

\* card.to_string()
DoDisplay ==
    /\ pc = "card"
    /\ token' = CardDisplay(card)
    /\ pc' = "shown"
    /\ UNCHANGED <<text, hand, scan, rank, card, parsed, text2, rank2, ordering>>

\* Card::try_from(token), on a token given as input or on the text Display
\* wrote; parsed tells a returned Result from a panic.
DoCardTryFrom ==
    /\ pc \in {"token", "shown"}
    /\ parsed' = CardTryFrom(token)
    /\ pc' = IF pc = "shown" THEN "reparsed" ELSE "parsed"
    /\ UNCHANGED <<text, hand, scan, rank, token, card, text2, rank2, ordering>>

NextCard == DoDisplay \/ DoCardTryFrom

SpecCard == InitCard /\ [][NextCard]_vars

---------------------------------------------------------------------------
(* What the claims are stated with. *)

\* The hand has been built and rank() has run on it.
Ranked == pc \in {"ranked", "panicked"}

\* The values of the built hand, in the hand's order.
HandValues == [i \in 1..5 |-> hand.val[i].value]

\* The deck by its lower-case texts: value text, then suit letter.
RefDeckTexts == [t \in {ToLowercase(CardDisplay(c)) : c \in Deck} |->
                    CHOOSE c \in Deck : ToLowercase(CardDisplay(c)) = t]

\* The card a token names, without regard to case.
RefCardOf(tok) == RefDeckTexts[ToLowercase(tok)]

\* The cards the text names, in the order of its tokens.
InputCards == LET toks == SplitWhitespace(text)
              IN  [i \in 1..Len(toks) |-> RefCardOf(toks[i])]

RefCount(cards, v) == Cardinality({i \in 1..Len(cards) : cards[i].value = v})

RefValueSet(cards) == {cards[i].value : i \in 1..Len(cards)}

\* The number of groups of equal value, and the size of the largest.
RefGroups(cards) == Cardinality(RefValueSet(cards))

RefLargest(cards) ==
    CHOOSE n \in 1..5 : /\ \E v \in RefValueSet(cards) : RefCount(cards, v) = n
                        /\ \A v \in RefValueSet(cards) : RefCount(cards, v) <= n

RefFlush(cards) == \A i, j \in 1..Len(cards) : cards[i].suit = cards[j].suit

RefWheel(cards) == RefValueSet(cards) = {Ace, 5, 4, 3, 2}

RefStraight(cards) ==
    /\ RefGroups(cards) = 5
    /\ \/ \A v, w \in RefValueSet(cards) : v - w <= 4
       \/ RefWheel(cards)

\* The category the group counts give a hand of fewer than five groups.
RefByGroups(cards) ==
    CASE RefGroups(cards) = 2 /\ RefLargest(cards) = 4 -> "Bomb"
      [] RefGroups(cards) = 2 /\ RefLargest(cards) = 3 -> "FullHouse"
      [] RefGroups(cards) = 3 /\ RefLargest(cards) = 3 -> "Set"
      [] RefGroups(cards) = 3 /\ RefLargest(cards) = 2 -> "TwoPair"
      [] RefGroups(cards) = 4 -> "Pair"
      [] OTHER -> "none"

\* The reference classifier.
RefCategory(cards) ==
    IF RefGroups(cards) < 5 THEN RefByGroups(cards)
    ELSE IF RefFlush(cards) /\ RefStraight(cards)
         THEN IF RefValueSet(cards) = {Ace, King, Queen, Jack, Ten}
              THEN "RoyalStraightFlush" ELSE "StraightFlush"
    ELSE IF RefFlush(cards) THEN "Flush"
    ELSE IF RefStraight(cards) THEN "Straight"
    ELSE "HighCard"

Distinct(cards) == \A i, j \in 1..Len(cards) : cards[i] = cards[j] => i = j

\* The token is the text of a card of the deck, in either case.
RefIsCardToken(tok) == ToLowercase(tok) \in DOMAIN RefDeckTexts

\* The text names five pairwise-distinct cards of the deck.
NamesDistinctHand ==
    LET toks == SplitWhitespace(text)
    IN  /\ Len(toks) = 5
        /\ \A i \in 1..5 : RefIsCardToken(toks[i])
        /\ Distinct(InputCards)

\* The run has ended.
Ended == pc \in {"failed", "aborted", "ranked", "panicked"}

---------------------------------------------------------------------------
(* The claims. *)

\* C1: for a text naming five pairwise-distinct cards of the deck, in any
\* token order, try_from followed by rank() returns the category of the
\* reference classifier: RoyalStraightFlush, StraightFlush (the wheel
\* included), Bomb, FullHouse, Flush, Straight, Set, TwoPair, Pair or
\* HighCard, wherever the groups of equal value sit in the sorted order.
C1_Classification ==
    (Ended /\ NamesDistinctHand) => (pc = "ranked" /\ rank = RefCategory(InputCards))

\* A full house of distinct cards whose pair sorts first and whose text does
\* not list the cards highest first.
C1_Witness ==
    /\ pc = "ranked" /\ NamesDistinctHand
    /\ rank = "FullHouse"
    /\ HandValues[1] = HandValues[2] /\ HandValues[2] # HandValues[3]
    /\ InputCards[1].value < InputCards[5].value

\* The straight flag the claim describes, on values sorted descending.
RefStraightFlag(v) ==
    \/ \A i \in 1..4 : v[i] = v[i + 1] + 1
    \/ v = <<Ace, 5, 4, 3, 2>>

\* C2: for every hand parsing accepts (repeated values allowed), the straight
\* flag of rank() is true iff every neighbour in the sorted values is one
\* below its predecessor or the values are exactly Ace, Five, Four, Three, Two;
\* and a hand that is a straight and a flush is RoyalStraightFlush exactly
\* when its second-highest card is King.
C2_StraightFlag ==
    Ranked =>
        /\ scan.is_straight <=> RefStraightFlag(HandValues)
        /\ (scan.is_straight /\ scan.is_flush) =>
              /\ rank \in {"RoyalStraightFlush", "StraightFlush"}
              /\ rank = "RoyalStraightFlush" <=> HandValues[2] = King
              /\ rank = "RoyalStraightFlush" <=> HandValues = <<Ace, King, Queen, Jack, Ten>>

\* The wheel, written lowest card first, is a straight.
C2_Witness ==
    /\ pc = "ranked"
    /\ HandValues = <<Ace, 5, 4, 3, 2>>
    /\ InputCards[1].value = 2
    /\ scan.is_straight
    /\ rank = "StraightFlush"

\* C4: for every hand parsing accepts (a card may occur more than once), a
\* hand of 2, 3 or 4 groups of equal value is classified by its group counts
\* alone, whatever the suits: the flush flag matters only with five distinct
\* values.
C4_GroupsDecide ==
    (Ranked /\ RefGroups(hand.val) \in 2..4) => rank = RefByGroups(hand.val)

\* The text with its k-th and (k+1)-th tokens exchanged.
SwapTokens(t, k) ==
    LET toks == SplitWhitespace(t)
    IN  JoinSpace([i \in 1..Len(toks) |->
                      IF i = k THEN toks[k + 1] ELSE IF i = k + 1 THEN toks[k] ELSE toks[i]])

\* C7: the rank does not depend on the order of the tokens.  Exchanging any
\* two neighbouring tokens leaves the rank as it is; the scenario hands are
\* given in every token order, a set closed under these exchanges, which
\* generate every permutation, so all orders of those hands get one rank.
C7_OrderIndependent ==
    Ranked => \A k \in 1..4 : HandRank(HandTryFrom(SwapTokens(text, k)).val) = rank

\* A hand with two cards of equal value and different suits, written lowest
\* first.
C7_Witness ==
    /\ pc = "ranked"
    /\ \E i \in 1..4 : /\ hand.val[i].value = hand.val[i + 1].value
                       /\ hand.val[i].suit # hand.val[i + 1].suit
    /\ InputCards[1].value < InputCards[5].value

\* C10: rank() never reaches its panic: for every hand parsing accepts, five
\* equal values and repeated cards included, the loop leaves 0, 1, 2, 3 or 5
\* cards in high.
C10_NoPanic ==
    Ranked => (Len(scan.high) \in {0, 1, 2, 3, 5} /\ rank # "Panic" /\ pc = "ranked")

\* Five cards of one value, neither flush nor straight, reach the match on
\* high.len().
C10_Witness ==
    /\ pc = "ranked"
    /\ RefGroups(hand.val) = 1
    /\ ~scan.is_flush
    /\ Len(scan.high) = 0

\* The suit letters and value tokens of the card text grammar, in lower case.
RefSuitLetters == {"h", "d", "c", "s"}

RefValueTokens == {<<"a">>, <<"2">>, <<"3">>, <<"4">>, <<"5">>, <<"6">>, <<"7">>, <<"8">>,
                   <<"9">>, <<"1", "0">>, <<"j">>, <<"q">>, <<"k">>}

\* The result the claim gives one token: the length (in characters) first,
\* then the last character as the suit, then the rest as the value.
ClaimedTokenResult(tok) ==
    IF Len(tok) \notin {2, 3} THEN Err("BadCard", "invalid length")
    ELSE IF LowerChar(tok[Len(tok)]) \notin RefSuitLetters
         THEN Err("BadSuit", tok[Len(tok)])
    ELSE IF ToLowercase(SubSeq(tok, 1, Len(tok) - 1)) \notin RefValueTokens
         THEN Err("BadValue", StrOf(SubSeq(tok, 1, Len(tok) - 1)))
    ELSE [kind |-> "Ok"]

\* The result the claim gives a text: the error of the first invalid token;
\* with every token valid, the count error unless there are five.
ClaimedHandResult(toks) ==
    IF \E i \in 1..Len(toks) : ClaimedTokenResult(toks[i]).kind # "Ok"
    THEN ClaimedTokenResult(toks[CHOOSE i \in 1..Len(toks) :
            /\ ClaimedTokenResult(toks[i]).kind # "Ok"
            /\ \A j \in 1..(i - 1) : ClaimedTokenResult(toks[j]).kind = "Ok"])
    ELSE IF Len(toks) # 5 THEN Err("BadCard", "invalid number of cards")
    ELSE [kind |-> "Ok"]

\* C5: hand parsing returns the error of the first invalid token (length,
\* then suit, then value), the count error only when every token is valid and
\* there are not five, and a hand only for exactly five valid tokens.
C5_FirstError ==
    pc # "start" =>
        LET c == ClaimedHandResult(SplitWhitespace(text))
        IN  /\ hand.kind = c.kind
            /\ c.kind # "Ok" => hand.arg = c.arg

\* C6: Card::try_from never aborts: every token gives a Card or one of
\* BadCard, BadSuit, BadValue, and every token whose length is not 2 or 3
\* gives BadCard("invalid length").
C6_NeverAborts ==
    pc \in {"parsed", "reparsed"} =>
        /\ parsed.kind \in {"Ok", "BadCard", "BadSuit", "BadValue"}
        /\ Len(token) \notin {2, 3} =>
              (parsed.kind = "BadCard" /\ parsed.arg = "invalid length")

\* The text of a value and the letter of a suit in the card text grammar.
RefValueText(v) ==
    CASE v = Ace -> <<"A">> [] v = King -> <<"K">> [] v = Queen -> <<"Q">>
      [] v = Jack -> <<"J">> [] v = Ten -> <<"1", "0">>
      [] OTHER -> <<(<<"2", "3", "4", "5", "6", "7", "8", "9">>)[v - 1]>>

RefSuitLetter(s) ==
    CASE s = "Heart" -> "h" [] s = "Diamond" -> "d" [] s = "Club" -> "c" [] s = "Spade" -> "s"

\* C8: parsing the text of a card gives the card again, for each of the 52
\* cards; the text is the value's text followed by the suit's letter.
C8_RoundTrip ==
    pc = "reparsed" =>
        /\ parsed.kind = "Ok"
        /\ parsed.val = card
        /\ token = Append(RefValueText(card.value), RefSuitLetter(card.suit))

\* The ten of diamonds, whose text has three characters, is parsed back.
C8_Witness ==
    /\ pc = "reparsed"
    /\ card = CardNew("Diamond", Ten)
    /\ token = <<"1", "0", "d">>
    /\ parsed.kind = "Ok"

\* The categories from the highest to the lowest.
RefChain == <<"RoyalStraightFlush", "StraightFlush", "Bomb", "FullHouse", "Flush",
              "Straight", "Set", "TwoPair", "Pair", "HighCard">>

RefChainPos(r) == CHOOSE i \in 1..Len(RefChain) : RefChain[i] = r

\* C9: two hands of different categories never tie, and the one whose
\* category comes first in the chain has the greater rank.
C9_CategoryOrder ==
    (pc = "compared" /\ rank # rank2) =>
        /\ ordering # "Equal"
        /\ ordering = "Greater" <=> RefChainPos(rank) < RefChainPos(rank2)

\* Four of a kind against a full house.
C9_Witness ==
    /\ pc = "compared"
    /\ rank = "Bomb" /\ rank2 = "FullHouse"
    /\ ordering = "Greater"

\* The values of the groups of a hand, the larger group first and among
\* groups of one size the higher value first.
RECURSIVE RefGroupOrder(_, _)
RefGroupOrder(cards, left) ==
    IF left = {} THEN <<>>
    ELSE LET v == CHOOSE v \in left : \A w \in left :
                     \/ RefCount(cards, v) > RefCount(cards, w)
                     \/ RefCount(cards, v) = RefCount(cards, w) /\ v >= w
         IN  <<v>> \o RefGroupOrder(cards, left \ {v})

RefMax(S) == CHOOSE v \in S : \A w \in S : v >= w

\* The tie-break data of a hand of category cat.
RefPayload(cards, cat) ==
    CASE cat = "RoyalStraightFlush" -> <<>>
      [] cat \in {"StraightFlush", "Straight"} ->
            <<IF RefWheel(cards) THEN Five ELSE RefMax(RefValueSet(cards))>>
      [] OTHER -> RefGroupOrder(cards, RefValueSet(cards))

\* The lexicographic order of two payloads.
RECURSIVE RefLexCmp(_, _)
RefLexCmp(p, q) ==
    IF p = <<>> /\ q = <<>> THEN "Equal"
    ELSE IF p = <<>> THEN "Less"
    ELSE IF q = <<>> THEN "Greater"
    ELSE IF Head(p) < Head(q) THEN "Less"
    ELSE IF Head(p) > Head(q) THEN "Greater"
    ELSE RefLexCmp(Tail(p), Tail(q))

\* C3: within one category the ranks of two hands are ordered by their
\* tie-break data, and two ranks are equal iff category and tie-break data
\* are the same; so the wheel ranks below the six-high straight and a pair of
\* Kings above a pair of Twos.
C3_TieBreak ==
    pc = "compared" =>
        LET p1 == RefPayload(hand.val, rank)
            p2 == RefPayload(HandTryFrom(text2).val, rank2)
        IN  /\ ordering = "Equal" <=> (rank = rank2 /\ p1 = p2)
            /\ rank = rank2 => ordering = RefLexCmp(p1, p2)

=============================================================================
